---- MODULE Spec2Model ----
(***************************************************************************)
(* Row insertion with row-shift bookkeeping and reference rewriting        *)
(* (src/v1.py).  Texts (formulas, hyperlink targets) are sequences of      *)
(* one-character strings; dictionaries are functions; a Python set is a    *)
(* set.                                                                    *)
(***************************************************************************)
EXTENDS Integers, Sequences, FiniteSets, TLC

VARIABLES
    pc,              \* position of the run / which operation has acted
    row_shift_map,   \* {anchor row in the original sheet -> rows inserted after it}
    max_row_original,\* number of rows of the original target sheet
    row_num,         \* the row a rewriter looks up
    shift,           \* cumulative_shifts.get(row_num, 0)
    target_row,      \* a row of the post-insertion layout
    is_inserted,     \* target_row in get_inserted_rows_set(row_shift_map)
    source_row,      \* the row identity resolution returns for target_row;
                     \* the row a formula is copied from (adjust_formula_references)
    pieces,          \* the references and literal text a formula or target is written from
    text,            \* the formula or hyperlink target handed to a rewriter
    result,          \* the text the rewriter returned
    excel_file,      \* the input workbook: the target sheet's cells and a cell of another sheet
    insert_data,     \* the insertion requests
    metadata,        \* extract_target_sheet_metadata: anchor row -> its cell
    cross_references,\* analyze_cross_sheet_references: the captured cells
    df,              \* the pandas frame of the target sheet
    inserted_positions, \* the positions insert_rows_with_pandas reports
    temp_file,       \* the temporary workbook, when it exists
    wb,              \* the workbook in memory in the last phases
    output_file      \* the output workbook, when it exists

pipeVars == <<excel_file, insert_data, metadata, cross_references, df,
              inserted_positions, temp_file, wb, output_file>>

vars == <<pc, row_shift_map, max_row_original, row_num, shift,
          target_row, is_inserted, source_row, pieces, text, result,
          excel_file, insert_data, metadata, cross_references, df,
          inserted_positions, temp_file, wb, output_file>>

textVars == <<pieces, text, result>>

\* No run of insert_rows_optimized is under way
NoFile == [exists |-> FALSE]

PipeIdle ==
    /\ excel_file = NoFile /\ insert_data = << >> /\ metadata = << >>
    /\ cross_references = << >> /\ df = << >> /\ inserted_positions = << >>
    /\ temp_file = NoFile /\ wb = NoFile /\ output_file = NoFile

----------------------------------------------------------------------------
(* Bounds of the model *)

MaxRow == 5
MaxCount == 2
MaxAnchors == 2

(* Program constants *)

\* range(1, 100000): the rows calculate_cumulative_shifts records
RangeStop == 100000
\* orig_row > max(sorted_rows) + 1000: where the walk switches to the fill
TailMargin == 1000

----------------------------------------------------------------------------
(* Helpers: Python built-ins *)

SetMax(S) == CHOOSE x \in S : \A y \in S : y <= x

SetMin(S) == CHOOSE x \in S : \A y \in S : x <= y

\* sorted(d.keys()): the keys in ascending order
RECURSIVE SortedSeq(_)
SortedSeq(S) ==
    IF S = {} THEN << >>
    ELSE LET m == SetMin(S) IN <<m>> \o SortedSeq(S \ {m})

sorted_keys(d) == SortedSeq(DOMAIN d)

----------------------------------------------------------------------------
(* calculate_cumulative_shifts *)

\* The value of `cumulative` when the walk reaches orig_row: the walk has
\* visited rows 1 .. orig_row - 1 and added the count of each that is a key.
RECURSIVE CumulativeAt(_, _, _)
CumulativeAt(d, keys, orig_row) ==
    IF keys = << >> THEN 0
    ELSE (IF 1 <= Head(keys) /\ Head(keys) < orig_row THEN d[Head(keys)] ELSE 0)
         + CumulativeAt(d, Tail(keys), orig_row)

\* The dictionary the function returns has an entry for every row of
\* range(1, 100000), or none.  It is kept as its key set and what the walk
\* needs to give the value at a key (entry below): the 99999 values are not
\* tabulated.
calculate_cumulative_shifts(d) ==
    IF DOMAIN d = {}
    THEN [keys |-> {}, counts |-> d, break_row |-> 0]
    ELSE [keys |-> 1..(RangeStop - 1),
          counts |-> d,
          \* the first row with orig_row > max(sorted_rows) + 1000
          break_row |-> SetMax(DOMAIN d) + TailMargin + 1]

\* cumulative_shifts[orig_row], for a key: recorded by the walk up to
\* break_row, by the fill with the walk's last value after it
entry(cumulative_shifts, orig_row) ==
    LET d == cumulative_shifts.counts
    IN  IF orig_row <= cumulative_shifts.break_row
        THEN CumulativeAt(d, sorted_keys(d), orig_row)
        ELSE CumulativeAt(d, sorted_keys(d), cumulative_shifts.break_row + 1)

\* cumulative_shifts.get(key, default)
dict_get(cumulative_shifts, key, default) ==
    IF key \in cumulative_shifts.keys THEN entry(cumulative_shifts, key) ELSE default

----------------------------------------------------------------------------
(* Row identity: get_inserted_rows_set, get_source_row_for_inserted,
   reverse_map_row *)

\* Inserted rows placed without counting the rows inserted above them
InsertedFrom_without_cumulative(d, keys, cumulative) ==
    UNION {{keys[k] + i : i \in 1..d[keys[k]]} : k \in 1..Len(keys)}

\* One pass of the loop over sorted(row_shift_map.keys()) carrying `cumulative`
RECURSIVE InsertedFrom(_, _, _)
InsertedFrom(d, keys, cumulative) ==
    IF keys = << >> THEN {}
    ELSE LET rn == Head(keys)
             count == d[rn]
             actual_position == rn + cumulative
         IN  {actual_position + i : i \in 1..count}
             \cup InsertedFrom(d, Tail(keys), cumulative + count)

get_inserted_rows_set(d) == InsertedFrom(d, sorted_keys(d), 0)

RECURSIVE SourceFrom(_, _, _, _)
SourceFrom(t, d, keys, cumulative) ==
    IF keys = << >> THEN 0
    ELSE LET rn == Head(keys)
             count == d[rn]
             actual_position == rn + cumulative
         IN  IF actual_position < t /\ t <= actual_position + count
             THEN rn
             ELSE SourceFrom(t, d, Tail(keys), cumulative + count)

get_source_row_for_inserted(t, d, cumulative_shifts) ==
    SourceFrom(t, d, sorted_keys(d), 0)

\* The rows a hit of reverse_map_row can lie in.  Every recorded shift lies
\* between 0 and the last recorded one (the counts are not negative), so
\* orig_row + shift = t leaves orig_row in t - last .. t; the walk over the
\* other entries finds nothing.
HitWindow(t, cumulative_shifts) ==
    IF cumulative_shifts.keys = {} THEN {}
    ELSE LET last == entry(cumulative_shifts, RangeStop - 1)
         IN  {orig_row \in (t - last)..t : orig_row \in cumulative_shifts.keys}

\* The dictionary is walked in insertion order, which is ascending row order:
\* the first hit is the smallest.
reverse_map_row(t, cumulative_shifts) ==
    LET hits == {orig_row \in HitWindow(t, cumulative_shifts) :
                    orig_row + entry(cumulative_shifts, orig_row) = t}
    IN  IF hits # {} THEN SetMin(hits) ELSE t

----------------------------------------------------------------------------
(* Shift tables and rows the operations are applied to *)

\* Rows at the end of the recorded range
CeilingRows == {RangeStop - 1, RangeStop}

TablesOver(anchors, counts) ==
    UNION {[S -> counts] : S \in {A \in SUBSET anchors : Cardinality(A) <= MaxAnchors}}

\* A sheet of n rows with anchors among its rows
SmallInputs ==
    {<<n, d>> : n \in 1..MaxRow, d \in TablesOver(1..MaxRow, 0..MaxCount)}

CeilingInputs ==
    {<<RangeStop + 1, d>> : d \in TablesOver({2} \cup CeilingRows, {1})}

ShiftInputs ==
    {x \in SmallInputs \cup CeilingInputs : DOMAIN x[2] \subseteq 1..x[1]}

Total(d) == CumulativeAt(d, sorted_keys(d), SetMax(DOMAIN d \cup {0}) + 1)

ProbeRows(n) == IF n <= MaxRow THEN 1..(n + 1) ELSE (1..3) \cup ((RangeStop - 2)..(RangeStop + 1))

ResultRows(n, d) ==
    IF n <= MaxRow THEN 1..(n + Total(d))
    ELSE (1..3) \cup ((RangeStop - 2)..(n + Total(d)))

InitShift ==
    /\ pc = "ready"
    /\ \E x \in ShiftInputs : max_row_original = x[1] /\ row_shift_map = x[2]
    /\ row_num = 0 /\ shift = 0
    /\ target_row = 0 /\ is_inserted = FALSE /\ source_row = 0
    /\ pieces = << >> /\ text = << >> /\ result = << >>
    /\ PipeIdle

\* update_formula_with_shifts.replace_reference: the offset of a row
Lookup ==
    /\ pc = "ready"
    /\ \E r \in ProbeRows(max_row_original) :
         /\ row_num' = r
         /\ shift' = dict_get(calculate_cumulative_shifts(row_shift_map), r, 0)
    /\ pc' = "looked"
    /\ UNCHANGED <<row_shift_map, max_row_original, target_row, is_inserted, source_row>>
    /\ UNCHANGED <<textVars, pipeVars>>

\* apply_formatting_to_target_sheet_v2: the identity of one result row
Resolve ==
    /\ pc = "ready"
    /\ \E t \in ResultRows(max_row_original, row_shift_map) :
         LET cumulative_shifts == calculate_cumulative_shifts(row_shift_map)
             inserted_rows == get_inserted_rows_set(row_shift_map)
         IN  /\ target_row' = t
             /\ is_inserted' = (t \in inserted_rows)
             /\ source_row' =
                  IF t \in inserted_rows
                  THEN get_source_row_for_inserted(t, row_shift_map, cumulative_shifts)
                  ELSE reverse_map_row(t, cumulative_shifts)
    /\ pc' = "resolved"
    /\ UNCHANGED <<row_shift_map, max_row_original, row_num, shift>>
    /\ UNCHANGED <<textVars, pipeVars>>

NextShift == Lookup \/ Resolve

SpecShift == InitShift /\ [][NextShift]_vars

----------------------------------------------------------------------------
(* What the contract says an offset is: the rows inserted above a row *)

\* The sum of the counts of the anchors strictly below row r
RECURSIVE SumBelow(_, _)
SumBelow(d, r) ==
    LET below == {a \in DOMAIN d : a < r}
    IN  IF below = {} THEN 0
        ELSE LET a == SetMax(below)
             IN  d[a] + SumBelow(d, a)

\* The offset the code applies to a row: the entry, or the default
OffsetUsed(d, r) == dict_get(calculate_cumulative_shifts(d), r, 0)

\* C2: for every shift table and every row r >= 1, however large, the offset
\* the rewriters look up equals the sum of the counts of all anchors strictly
\* below r (rows beyond the last anchor receive the sum of all counts).
C2_OffsetIsSumBelowEveryRow ==
    pc = "looked" => shift = SumBelow(row_shift_map, row_num)

\* C3: for every anchor row a of the shift table, calculate_cumulative_shifts
\* records an offset for a, and it is the sum of the counts of the anchors
\* strictly before a (a's own count excluded).
C3_AnchorOffsetRecordedExcludingOwn ==
    (pc = "looked" /\ row_num \in DOMAIN row_shift_map)
        => /\ row_num \in calculate_cumulative_shifts(row_shift_map).keys
           /\ shift = SumBelow(row_shift_map, row_num)

\* C4: offset monotonicity: for all rows r1 < r2 the offset the rewriter uses
\* for r1 (the entry or the default) is at most the one it uses for r2.
C4_OffsetMonotone ==
    pc = "looked"
        => \A r1 \in ProbeRows(max_row_original) :
              r1 < row_num => OffsetUsed(row_shift_map, r1) <= shift

\* C5: round trip of identity: a result row t classified as original with
\* reverse_map_row returning r has r + offset(r) = t; one classified as
\* inserted with get_source_row_for_inserted returning a has
\* a + offset(a) < t <= a + offset(a) + count(a).
C5_IdentityRoundTrip ==
    pc = "resolved"
        => IF is_inserted
           THEN /\ source_row \in DOMAIN row_shift_map
                /\ source_row + OffsetUsed(row_shift_map, source_row) < target_row
                /\ target_row <= source_row + OffsetUsed(row_shift_map, source_row)
                                 + row_shift_map[source_row]
           ELSE source_row + OffsetUsed(row_shift_map, source_row) = target_row

\* The anchors whose inserted block holds result row t (the replay of
\* get_inserted_rows_set: anchor a sits at a + the counts before it)
BlocksHolding(d, t) ==
    {a \in DOMAIN d : a + SumBelow(d, a) < t /\ t <= a + SumBelow(d, a) + d[a]}

\* The original rows of a sheet of n rows that the offsets send to result
\* row t.  An offset lies in 0 .. Total(d), so only rows t - Total(d) .. t
\* can be sent to t.
OriginalsSentTo(d, n, t) ==
    {r \in (t - Total(d))..t : 1 <= r /\ r <= n /\ r + OffsetUsed(d, r) = t}

\* C6: in a sheet of N rows with anchors in 1..N and positive counts summing
\* to T, every result row t in 1..N+T has exactly one identity: it lies in
\* the inserted block of exactly one anchor, or t = r + offset(r) for exactly
\* one original row r in 1..N, never both; get_inserted_rows_set and
\* reverse_map_row classify it so.
C6_ExactlyOneIdentity ==
    (pc = "resolved" /\ \A a \in DOMAIN row_shift_map : row_shift_map[a] > 0)
        => LET blocks == BlocksHolding(row_shift_map, target_row)
               originals == OriginalsSentTo(row_shift_map, max_row_original, target_row)
           IN  /\ Cardinality(blocks) + Cardinality(originals) = 1
               /\ is_inserted <=> blocks # {}
               /\ is_inserted => blocks = {source_row}
               /\ ~is_inserted => originals = {source_row}

----------------------------------------------------------------------------
(* Texts: str, int(), and the regular expressions of the rewriters *)

Upper == {"A", "B", "C", "D", "E", "F", "G", "H", "I", "J", "K", "L", "M",
          "N", "O", "P", "Q", "R", "S", "T", "U", "V", "W", "X", "Y", "Z"}

DigitChars == <<"0", "1", "2", "3", "4", "5", "6", "7", "8", "9">>

\* \d in a str pattern matches every Unicode decimal digit, and int() reads
\* them all.  One block of them stands for the others: ARABIC-INDIC DIGIT ZERO
\* to NINE, each written here by its code point.
ArabicIndicChars ==
    <<"U+0660", "U+0661", "U+0662", "U+0663", "U+0664", "U+0665", "U+0666",
      "U+0667", "U+0668", "U+0669">>

Digit == {DigitChars[i] : i \in 1..10} \cup {ArabicIndicChars[i] : i \in 1..10}

DigitValue(c) ==
    (CHOOSE i \in 1..10 : DigitChars[i] = c \/ ArabicIndicChars[i] = c) - 1

\* int(match.group(...)): the value of a run of decimal digits
RECURSIVE int(_)
int(ds) ==
    IF ds = << >> THEN 0
    ELSE int(SubSeq(ds, 1, Len(ds) - 1)) * 10 + DigitValue(ds[Len(ds)])

RECURSIVE StrNat(_)
StrNat(n) ==
    IF n < 10 THEN <<DigitChars[n + 1]>>
    ELSE StrNat(n \div 10) \o <<DigitChars[(n % 10) + 1]>>

\* f"{n}": the decimal digits of an integer, "-" first when it is negative
str(n) == IF n < 0 THEN <<"-">> \o StrNat(-n) ELSE StrNat(n)

\* The index after the longest run of characters of class C that starts at i
RECURSIVE RunEnd(_, _, _)
RunEnd(s, i, C) ==
    IF i <= Len(s) /\ s[i] \in C THEN RunEnd(s, i + 1, C) ELSE i

\* Whether the literal lit stands in s at index i
HasAt(s, i, lit) ==
    /\ i + Len(lit) - 1 <= Len(s)
    /\ SubSeq(s, i, i + Len(lit) - 1) = lit

\* (\$?)([A-Z]+)(\$?)(\d+) at index j.  The greedy runs are the only way to
\* match: after a shorter run of letters comes a letter, after an optional $
\* left out comes the $.
CellRefAt(s, j) ==
    LET a == IF HasAt(s, j, <<"$">>) THEN j + 1 ELSE j
        b == RunEnd(s, a, Upper)
        c == IF HasAt(s, b, <<"$">>) THEN b + 1 ELSE b
        e == RunEnd(s, c, Digit)
    IN  [ok |-> b > a /\ e > c,
         col_abs |-> SubSeq(s, j, a - 1),
         col |-> SubSeq(s, a, b - 1),
         row_abs |-> SubSeq(s, b, c - 1),
         digits |-> SubSeq(s, c, e - 1),
         end |-> e]

\* re.escape(target_sheet_name).replace(r'\ ', ' ') matches the name itself
\* 'name'!
QuotedPrefix(name) == <<"'">> \o name \o <<"'", "!">>
\* name!
PlainPrefix(name) == name \o <<"!">>

\* ((?:'name'|name)!): the alternatives in the order the pattern tries them
formula_prefixes(name) == <<QuotedPrefix(name), PlainPrefix(name)>>

\* (#?(?:'name'|name)!): # taken when it is there, left out on backtracking
hyperlink_prefixes(name) ==
    << <<"#">> \o QuotedPrefix(name), <<"#">> \o PlainPrefix(name),
       QuotedPrefix(name), PlainPrefix(name) >>

\* The match of prefix-then-cell-reference that starts at index i, trying the
\* prefixes from the k-th on
RECURSIVE MatchFrom(_, _, _, _)
MatchFrom(s, i, prefixes, k) ==
    IF k > Len(prefixes)
    THEN [ok |-> FALSE, prefix |-> << >>, ref |-> CellRefAt(s, Len(s) + 1),
          start |-> i, end |-> i]
    ELSE LET ref == CellRefAt(s, i + Len(prefixes[k]))
         IN  IF HasAt(s, i, prefixes[k]) /\ ref.ok
             THEN [ok |-> TRUE, prefix |-> prefixes[k], ref |-> ref,
                   start |-> i, end |-> ref.end]
             ELSE MatchFrom(s, i, prefixes, k + 1)

MatchAt(s, i, prefixes) == MatchFrom(s, i, prefixes, 1)

----------------------------------------------------------------------------
(* update_formula_with_shifts, update_hyperlink_with_shifts *)

\* A replace_reference that rebuilds the reference without its
\* column-absolute marker
formula_replace_reference_drops_col_abs(s, m, cumulative_shifts) ==
    LET row_n == int(m.ref.digits)
    IN  IF m.ref.row_abs = <<"$">>
        THEN SubSeq(s, m.start, m.end - 1)
        ELSE LET new_row_num == row_n + dict_get(cumulative_shifts, row_n, 0)
             IN  m.prefix \o m.ref.col \o m.ref.row_abs \o str(new_row_num)

\* update_formula_with_shifts.replace_reference
formula_replace_reference(s, m, cumulative_shifts) ==
    LET row_n == int(m.ref.digits)
    IN  IF m.ref.row_abs = <<"$">>
        THEN SubSeq(s, m.start, m.end - 1)
        ELSE LET new_row_num == row_n + dict_get(cumulative_shifts, row_n, 0)
             IN  m.prefix \o m.ref.col_abs \o m.ref.col \o m.ref.row_abs
                 \o str(new_row_num)

\* A replace_reference without the early return for absolute rows
hyperlink_replace_reference_shifts_abs(s, m, cumulative_shifts) ==
    LET row_n == int(m.ref.digits)
        new_row_num == row_n + dict_get(cumulative_shifts, row_n, 0)
    IN  m.prefix \o m.ref.col_abs \o m.ref.col \o m.ref.row_abs \o str(new_row_num)

\* update_hyperlink_with_shifts.replace_reference
hyperlink_replace_reference(s, m, cumulative_shifts) ==
    LET row_n == int(m.ref.digits)
    IN  IF m.ref.row_abs = <<"$">>
        THEN SubSeq(s, m.start, m.end - 1)
        ELSE LET new_row_num == row_n + dict_get(cumulative_shifts, row_n, 0)
             IN  m.prefix \o m.ref.col_abs \o m.ref.col \o m.ref.row_abs
                 \o str(new_row_num)

\* re.sub(pattern, replace_reference, s) from index i on: the leftmost match
\* is replaced and the scan goes on after it
RECURSIVE formula_sub(_, _, _, _)
formula_sub(s, i, prefixes, cumulative_shifts) ==
    IF i > Len(s) THEN << >>
    ELSE LET m == MatchAt(s, i, prefixes)
         IN  IF m.ok
             THEN formula_replace_reference(s, m, cumulative_shifts)
                  \o formula_sub(s, m.end, prefixes, cumulative_shifts)
             ELSE <<s[i]>> \o formula_sub(s, i + 1, prefixes, cumulative_shifts)

RECURSIVE hyperlink_sub(_, _, _, _)
hyperlink_sub(s, i, prefixes, cumulative_shifts) ==
    IF i > Len(s) THEN << >>
    ELSE LET m == MatchAt(s, i, prefixes)
         IN  IF m.ok
             THEN hyperlink_replace_reference(s, m, cumulative_shifts)
                  \o hyperlink_sub(s, m.end, prefixes, cumulative_shifts)
             ELSE <<s[i]>> \o hyperlink_sub(s, i + 1, prefixes, cumulative_shifts)

update_formula_with_shifts(formula, target_sheet_name, cumulative_shifts) ==
    formula_sub(formula, 1, formula_prefixes(target_sheet_name), cumulative_shifts)

update_hyperlink_with_shifts(hyperlink_target, target_sheet_name, cumulative_shifts) ==
    hyperlink_sub(hyperlink_target, 1, hyperlink_prefixes(target_sheet_name),
                  cumulative_shifts)

----------------------------------------------------------------------------
(* adjust_formula_references *)

\* (?<!\$)([A-Z]+)(?<!\$)(\d+) at index i: no $ before the letters; the
\* second look-behind sees the last letter
AdjustMatchAt(s, i) ==
    LET b == RunEnd(s, i, Upper)
        e == RunEnd(s, b, Digit)
    IN  [ok |-> /\ (i = 1 \/ s[i - 1] # "$")
                /\ b > i
                /\ s[b - 1] # "$"
                /\ e > b,
         col |-> SubSeq(s, i, b - 1),
         digits |-> SubSeq(s, b, e - 1),
         end |-> e]

\* adjust_formula_references.adjust_reference
adjust_reference(m, row_diff) == m.col \o str(int(m.digits) + row_diff)

RECURSIVE adjust_sub(_, _, _)
adjust_sub(s, i, row_diff) ==
    IF i > Len(s) THEN << >>
    ELSE LET m == AdjustMatchAt(s, i)
         IN  IF m.ok
             THEN adjust_reference(m, row_diff) \o adjust_sub(s, m.end, row_diff)
             ELSE <<s[i]>> \o adjust_sub(s, i + 1, row_diff)

adjust_formula_references(formula, src_row, dst_row) ==
    LET row_diff == dst_row - src_row
    IN  IF row_diff = 0 THEN formula ELSE adjust_sub(formula, 1, row_diff)

----------------------------------------------------------------------------
(* The texts the rewriters are applied to: written from pieces, each a cell
   reference or literal text *)

MaxPieces == 2

\* target_sheet_name, and a sheet whose name ends with it
TargetName == <<"S", "h", "e", "e", "t", "1">>
OtherName == <<"M", "y">> \o TargetName
\* a sheet with an upper-case name that ends in a digit
UpperName == <<"S", "H", "1">>

Ref(qual, sheet, col_abs, col, row_abs, digits) ==
    [kind |-> "ref", qual |-> qual, sheet |-> sheet, col_abs |-> col_abs,
     col |-> col, row_abs |-> row_abs, digits |-> digits, chars |-> << >>]

Lit(chars) ==
    [kind |-> "lit", qual |-> "none", sheet |-> << >>, col_abs |-> FALSE,
     col |-> << >>, row_abs |-> FALSE, digits |-> << >>, chars |-> chars]

\* The text of a piece as a spreadsheet writes it
Render(p) ==
    IF p.kind = "lit" THEN p.chars
    ELSE (CASE p.qual = "quoted" -> QuotedPrefix(p.sheet)
            [] p.qual = "plain" -> PlainPrefix(p.sheet)
            [] OTHER -> << >>)
         \o (IF p.col_abs THEN <<"$">> ELSE << >>) \o p.col
         \o (IF p.row_abs THEN <<"$">> ELSE << >>) \o p.digits

RECURSIVE RenderAll(_)
RenderAll(ps) ==
    IF ps = << >> THEN << >> ELSE Render(Head(ps)) \o RenderAll(Tail(ps))

SeqsUpTo(S, n) == UNION {[1..k -> S] : k \in 1..n}

Qualifiers == {<<"none", << >> >>, <<"plain", TargetName>>,
               <<"quoted", TargetName>>, <<"plain", OtherName>>}

RewriteRefs ==
    {Ref(q[1], q[2], ca, <<"B">>, ra, ds) :
        q \in Qualifiers, ca \in BOOLEAN, ra \in BOOLEAN,
        ds \in {<<"4">>, <<"0", "1", "0">>}}

RewriteLits == {Lit(<<"#">>), Lit(<<"=">>), Lit(<<":">>)}

\* =Sheet1!B10
ExampleRewrite == <<Lit(<<"=">>), Ref("plain", TargetName, FALSE, <<"B">>, FALSE, <<"1", "0">>)>>

\* Sheet1!B<U+0664> and Sheet1!B$<U+0664>: row 4 in Arabic-Indic digits
UnicodeRewrite ==
    {<<Ref("plain", TargetName, FALSE, <<"B">>, ra, <<"U+0664">>)>> : ra \in BOOLEAN}

RewriteTexts ==
    SeqsUpTo(RewriteRefs \cup RewriteLits, MaxPieces) \cup {ExampleRewrite}
        \cup UnicodeRewrite

\* no insertion; insertions of no row; {3: 2, 5: 1}: rows 4 and 5 move by 2,
\* rows from 6 on by 3
RewriteTables == {<< >>, (3 :> 0), (3 :> 2) @@ (5 :> 1)}

InitRewrite ==
    /\ pc = "text"
    /\ row_shift_map \in RewriteTables
    /\ pieces \in RewriteTexts
    /\ text = RenderAll(pieces)
    /\ result = << >>
    /\ max_row_original = 0 /\ row_num = 0 /\ shift = 0
    /\ target_row = 0 /\ is_inserted = FALSE /\ source_row = 0
    /\ PipeIdle

\* update_cross_sheet_references, a formula
UpdateFormula ==
    /\ pc = "text"
    /\ result' = update_formula_with_shifts(text, TargetName,
                     calculate_cumulative_shifts(row_shift_map))
    /\ pc' = "formula"
    /\ UNCHANGED <<row_shift_map, max_row_original, row_num, shift,
                   target_row, is_inserted, source_row, pieces, text, pipeVars>>

\* update_cross_sheet_references, a hyperlink target
UpdateHyperlink ==
    /\ pc = "text"
    /\ result' = update_hyperlink_with_shifts(text, TargetName,
                     calculate_cumulative_shifts(row_shift_map))
    /\ pc' = "hyperlink"
    /\ UNCHANGED <<row_shift_map, max_row_original, row_num, shift,
                   target_row, is_inserted, source_row, pieces, text, pipeVars>>

NextRewrite == UpdateFormula \/ UpdateHyperlink

SpecRewrite == InitRewrite /\ [][NextRewrite]_vars

----------------------------------------------------------------------------
(* The formulas adjust_formula_references is applied to *)

AdjustQualifiers == {<<"none", << >> >>, <<"plain", TargetName>>, <<"plain", UpperName>>}

AdjustRefs ==
    {Ref(q[1], q[2], ca, col, ra, ds) :
        q \in AdjustQualifiers, ca \in BOOLEAN, col \in {<<"A">>, <<"A", "B">>},
        ra \in BOOLEAN, ds \in {<<"1">>, <<"1", "0">>}}

AdjustLits == {Lit(<<"=">>), Lit(<<":">>), Lit(<<"+">>)}

\* =SUM(A1:A10)
ExampleAdjust ==
    <<Lit(<<"=", "S", "U", "M", "(">>), Ref("none", << >>, FALSE, <<"A">>, FALSE, <<"1">>),
      Lit(<<":">>), Ref("none", << >>, FALSE, <<"A">>, FALSE, <<"1", "0">>), Lit(<<")">>)>>

\* =A<U+0664> and =A$<U+0664>: row 4 in Arabic-Indic digits
UnicodeAdjust ==
    {<<Lit(<<"=">>), Ref("none", << >>, FALSE, <<"A">>, ra, <<"U+0664">>)>> : ra \in BOOLEAN}

AdjustTexts ==
    SeqsUpTo(AdjustRefs \cup AdjustLits, MaxPieces) \cup {ExampleAdjust}
        \cup UnicodeAdjust

\* the rows a formula is copied from and to
AdjustRows == {1, MaxRow, MaxRow + 3}

InitAdjust ==
    /\ pc = "text"
    /\ pieces \in AdjustTexts
    /\ text = RenderAll(pieces)
    /\ source_row \in AdjustRows
    /\ target_row \in AdjustRows
    /\ result = << >>
    /\ row_shift_map = << >> /\ max_row_original = 0 /\ row_num = 0 /\ shift = 0
    /\ is_inserted = FALSE
    /\ PipeIdle

Adjust ==
    /\ pc = "text"
    /\ result' = adjust_formula_references(text, source_row, target_row)
    /\ pc' = "adjusted"
    /\ UNCHANGED <<row_shift_map, max_row_original, row_num, shift,
                   target_row, is_inserted, source_row, pieces, text, pipeVars>>

\* The copy taken back: the adjusted formula adjusted from the destination row
\* to the source row
AdjustBack ==
    /\ pc = "adjusted"
    /\ result' = adjust_formula_references(result, target_row, source_row)
    /\ pc' = "restored"
    /\ UNCHANGED <<row_shift_map, max_row_original, row_num, shift,
                   target_row, is_inserted, source_row, pieces, text, pipeVars>>

NextAdjust == Adjust \/ AdjustBack

SpecAdjust == InitAdjust /\ [][NextAdjust]_vars

----------------------------------------------------------------------------
(* Claims about the rewriters *)

RECURSIVE Flatten(_)
Flatten(ss) == IF ss = << >> THEN << >> ELSE Head(ss) \o Flatten(Tail(ss))

\* The piece with its row written as the number n
WithRow(p, n) == [p EXCEPT !.digits = str(n)]

\* A reference qualified with the target sheet's name, plain or quoted
TargetQualified(p) ==
    p.kind = "ref" /\ p.qual \in {"plain", "quoted"} /\ p.sheet = TargetName

\* What the rewriter that acted makes of a text
Rewritten(kind, s, d) ==
    IF kind = "formula"
    THEN update_formula_with_shifts(s, TargetName, calculate_cumulative_shifts(d))
    ELSE update_hyperlink_with_shifts(s, TargetName, calculate_cumulative_shifts(d))

T35 == (3 :> 2) @@ (5 :> 1)

C7_Piece(p, kind, d) ==
    IF TargetQualified(p) /\ ~p.row_abs
    THEN Render(WithRow(p, int(p.digits) + OffsetUsed(d, int(p.digits))))
    ELSE Rewritten(kind, Render(p), d)

\* C7: both rewriters replace every reference qualified with the target
\* sheet's name (plain or quoted, after "#" or not) whose row has no
\* absolute-row marker by the same reference with row number
\* row + offsets(row): qualifier and its quoting, column letters and the
\* column-absolute marker stay as written; =Sheet1!B10 with offsets(10) = 3
\* becomes =Sheet1!B13.  offsets(row) is what the rewriter finds for the row
\* in the table it is handed, 0 when the table has no entry.  The other pieces of the text come out as the rewriter
\* leaves them on their own.
C7_TargetReferencesShifted ==
    pc \in {"formula", "hyperlink"}
        => /\ result = Flatten([i \in 1..Len(pieces) |->
                                   C7_Piece(pieces[i], pc, row_shift_map)])
           /\ (pieces = ExampleRewrite /\ row_shift_map = T35)
                 => result = <<"=", "S", "h", "e", "e", "t", "1", "!", "B", "1", "3">>

\* A rewriter has shifted a quoted, column-absolute reference after "#" and
\* the example =Sheet1!B10 has become =Sheet1!B13
C7_Witness ==
    \/ /\ pc = "formula" /\ pieces = ExampleRewrite /\ row_shift_map = T35
       /\ result = <<"=", "S", "h", "e", "e", "t", "1", "!", "B", "1", "3">>
    \/ /\ pc = "hyperlink" /\ row_shift_map = T35
       /\ pieces = <<Lit(<<"#">>), Ref("quoted", TargetName, TRUE, <<"B">>, FALSE, <<"4">>)>>
       /\ result = <<"#", "'", "S", "h", "e", "e", "t", "1", "'", "!", "$", "B", "6">>

C8_Piece(p, kind, d) ==
    IF TargetQualified(p) /\ p.row_abs
    THEN Render(p)
    ELSE Rewritten(kind, Render(p), d)

\* C8: absolute-row immunity: every target-sheet reference whose row carries
\* the absolute-row marker, with or without $ before the column, stands
\* character for character in the output of both rewriters.
C8_AbsoluteRowImmune ==
    pc \in {"formula", "hyperlink"}
        => result = Flatten([i \in 1..Len(pieces) |->
                                C8_Piece(pieces[i], pc, row_shift_map)])

\* A rewriter has acted on a text with an absolute-row reference to a row
\* that moves, beside a relative reference that it did shift
C8_Witness ==
    /\ pc = "formula" /\ row_shift_map = T35
    /\ pieces = <<Ref("plain", TargetName, FALSE, <<"B">>, TRUE, <<"4">>),
                  Ref("plain", TargetName, FALSE, <<"B">>, FALSE, <<"4">>)>>
    /\ result = <<"S", "h", "e", "e", "t", "1", "!", "B", "$", "4",
                  "S", "h", "e", "e", "t", "1", "!", "B", "6">>

\* C9: when every offset is zero (no insertion, or counts of 0) both
\* rewriters return the input text unchanged character for character, for
\* every text, references with leading zeros in the row included.
C9_IdentityOnZeroShift ==
    (/\ pc \in {"formula", "hyperlink"}
     /\ \A a \in DOMAIN row_shift_map : row_shift_map[a] = 0)
        => result = text

C10_Piece(p, row_diff) ==
    IF p.kind = "ref" /\ ~p.row_abs
    THEN Render(WithRow(p, int(p.digits) + row_diff))
    ELSE Render(p)

\* C10: adjust_formula_references(formula, s, d) adds d - s to the row of
\* every reference without an absolute-row marker, with or without $ before
\* the column, leaves references with an absolute-row marker, column letters,
\* sheet qualifiers and all other text as they are, and returns the formula
\* unchanged when d = s.
C10_AdjustShiftsRelativeRows ==
    pc = "adjusted"
        => result = IF target_row = source_row THEN text
                    ELSE Flatten([i \in 1..Len(pieces) |->
                                     C10_Piece(pieces[i], target_row - source_row)])

----------------------------------------------------------------------------
(* insert_rows_optimized: one run over a workbook.  The target sheet is
   followed through one column that is neither the DT nor the KT column; a
   second sheet holds one cell. *)

MaxSheetRows == 3
MaxRequests == 2

\* A cell of the input workbook: what it holds and the pieces its formula or
\* hyperlink target is written from
EmptyCell == [kind |-> "none", pieces |-> << >>]
FormulaCell(ps) == [kind |-> "formula", pieces |-> <<Lit(<<"=">>)>> \o ps]
HyperlinkCell(ps) == [kind |-> "hyperlink", pieces |-> <<Lit(<<"#">>)>> \o ps]

\* A cell of a written workbook: what it holds and its text
Blank == [kind |-> "none", text |-> << >>]
Written(cell) == [kind |-> cell.kind, text |-> RenderAll(cell.pieces)]

\* =B2, =Sheet1!B$2 and a link to #Sheet1!B2 on the target sheet
TargetRelative == FormulaCell(<<Ref("none", << >>, FALSE, <<"B">>, FALSE, <<"2">>)>>)
TargetAbsolute == FormulaCell(<<Ref("plain", TargetName, FALSE, <<"B">>, TRUE, <<"2">>)>>)
TargetLink == HyperlinkCell(<<Ref("plain", TargetName, FALSE, <<"B">>, FALSE, <<"2">>)>>)
\* =Sheet1!B2, =Sheet1!B2:B3, ='Sheet1'!$B$2 and a link to #Sheet1!B2 on the
\* other sheet
OtherRelative == FormulaCell(<<Ref("plain", TargetName, FALSE, <<"B">>, FALSE, <<"2">>)>>)
OtherRange ==
    FormulaCell(<<Ref("plain", TargetName, FALSE, <<"B">>, FALSE, <<"2">>), Lit(<<":">>),
                  Ref("none", << >>, FALSE, <<"B">>, FALSE, <<"3">>)>>)
OtherAbsolute == FormulaCell(<<Ref("quoted", TargetName, TRUE, <<"B">>, TRUE, <<"2">>)>>)
OtherLink == HyperlinkCell(<<Ref("plain", TargetName, FALSE, <<"B">>, FALSE, <<"2">>)>>)

\* <<the cell in the last row of the target sheet, the cell of the other sheet>>
CellCases ==
    {<<TargetRelative, OtherRelative>>, <<TargetAbsolute, OtherRange>>,
     <<TargetLink, OtherAbsolute>>, <<EmptyCell, OtherLink>>,
     <<TargetRelative, EmptyCell>>, <<EmptyCell, EmptyCell>>}

Workbooks ==
    {[exists |-> TRUE,
      target |-> [r \in 1..n |-> IF r = n THEN c[1] ELSE EmptyCell],
      other |-> c[2]] : n \in 2..MaxSheetRows, c \in CellCases}

\* The requests: a row_number and the length of new_rows
Requests(n) == [row_number : 1..(n + 1), count : 0..MaxCount]

InsertData(n) == {<< >>} \cup SeqsUpTo(Requests(n), MaxRequests)

Init ==
    /\ pc = "start"
    /\ excel_file \in Workbooks
    /\ insert_data \in InsertData(Len(excel_file.target))
    /\ max_row_original = Len(excel_file.target)
    /\ row_shift_map = << >>
    /\ metadata = << >> /\ cross_references = << >> /\ df = << >>
    /\ inserted_positions = << >>
    /\ temp_file = NoFile /\ wb = NoFile /\ output_file = NoFile
    /\ row_num = 0 /\ shift = 0 /\ target_row = 0 /\ is_inserted = FALSE
    /\ source_row = 0
    /\ pieces = << >> /\ text = << >> /\ result = << >>

shiftVars == <<row_num, shift, target_row, is_inserted, source_row>>

\* validate_input: the checks a request list can fail
validate_input(data) ==
    /\ Len(data) # 0
    /\ \A idx \in 1..Len(data) : data[idx].count # 0

ValidateOk ==
    /\ pc = "start"
    /\ validate_input(insert_data)
    /\ pc' = "validated"
    /\ UNCHANGED <<row_shift_map, max_row_original, shiftVars, textVars, pipeVars>>

ValidateReject ==
    /\ pc = "start"
    /\ ~validate_input(insert_data)
    /\ pc' = "rejected"
    /\ UNCHANGED <<row_shift_map, max_row_original, shiftVars, textVars, pipeVars>>

\* ws[row_num] of the target sheet: a row past the last one reads as empty cells
sheet_row(file, r) ==
    IF r \in 1..Len(file.target) THEN Written(file.target[r]) ELSE Blank

\* The formula and the hyperlink target of every requested anchor row
extract_target_sheet_metadata(file, row_numbers) ==
    [r \in row_numbers |-> sheet_row(file, r)]

ExtractMetadata ==
    /\ pc = "validated"
    /\ metadata' = extract_target_sheet_metadata(excel_file,
                       {insert_data[i].row_number : i \in 1..Len(insert_data)})
    /\ pc' = "snapshot"
    /\ UNCHANGED <<row_shift_map, max_row_original, shiftVars, textVars,
                   excel_file, insert_data, cross_references, df,
                   inserted_positions, temp_file, wb, output_file>>

\* re.finditer / re.search of the target-sheet pattern finds something
HasReference(s, target_sheet_name) ==
    \E i \in 1..Len(s) : MatchAt(s, i, formula_prefixes(target_sheet_name)).ok

\* The cells of the other sheets that are captured, with their original text
analyze_cross_sheet_references(file, target_sheet_name) ==
    LET cell == Written(file.other)
    IN  IF cell.kind # "none" /\ HasReference(cell.text, target_sheet_name)
        THEN <<[type |-> cell.kind, original |-> cell.text]>>
        ELSE << >>

AnalyzeCrossReferences ==
    /\ pc = "snapshot"
    /\ cross_references' = analyze_cross_sheet_references(excel_file, TargetName)
    /\ pc' = "scanned"
    /\ UNCHANGED <<row_shift_map, max_row_original, shiftVars, textVars,
                   excel_file, insert_data, metadata, df,
                   inserted_positions, temp_file, wb, output_file>>

\* sorted(insert_data, key=row_number, reverse=True) as indices into
\* insert_data: equal row numbers keep the order of the list
RECURSIVE SortedInserts(_, _)
SortedInserts(data, idxs) ==
    IF idxs = {} THEN << >>
    ELSE LET top == SetMax({data[i].row_number : i \in idxs})
             first == SetMin({i \in idxs : data[i].row_number = top})
         IN  <<first>> \o SortedInserts(data, idxs \ {first})

\* A row of the frame: the original row whose values it carries and, for an
\* inserted row, the request and the entry of new_rows it was made from
OriginalRow(r) == [src |-> r, req |-> 0, ord |-> 0]

\* The loop over sorted_inserts: df.iloc[row_idx - 1] raises IndexError past
\* the end of the frame; otherwise count copies of that row are spliced in
\* after it and row_shift_map[row_idx] is set to the count
RECURSIVE InsertLoop(_, _, _, _)
InsertLoop(order, data, frame, rsm) ==
    IF order = << >>
    THEN [ok |-> TRUE, df |-> frame, row_shift_map |-> rsm]
    ELSE LET item == data[Head(order)]
             row_idx == item.row_number
         IN  IF row_idx > Len(frame)
             THEN [ok |-> FALSE, df |-> frame, row_shift_map |-> rsm]
             ELSE LET new_rows_list ==
                          [j \in 1..item.count |->
                              [src |-> frame[row_idx].src, req |-> Head(order), ord |-> j]]
                  IN  InsertLoop(Tail(order), data,
                                 SubSeq(frame, 1, row_idx) \o new_rows_list
                                     \o SubSeq(frame, row_idx + 1, Len(frame)),
                                 (row_idx :> item.count) @@ rsm)

\* inserted_positions, recomputed from row_shift_map after the loop
RECURSIVE PositionsFrom(_, _, _)
PositionsFrom(d, keys, cumulative) ==
    IF keys = << >> THEN << >>
    ELSE LET row == Head(keys)
         IN  [i \in 1..d[row] |->
                 [row_number |-> row + cumulative + i, source_row |-> row]]
             \o PositionsFrom(d, Tail(keys), cumulative + d[row])

insert_rows_with_pandas(file, data) ==
    LET n == Len(file.target)
        loop == InsertLoop(SortedInserts(data, 1..Len(data)), data,
                           [r \in 1..n |-> OriginalRow(r)], << >>)
    IN  [ok |-> loop.ok, df |-> loop.df, row_shift_map |-> loop.row_shift_map,
         inserted_positions |->
             PositionsFrom(loop.row_shift_map, sorted_keys(loop.row_shift_map), 0),
         \* a copy of the input whose target sheet is replaced by the frame's
         \* values: no formula or hyperlink is left on it
         temp_file |-> [exists |-> TRUE,
                        target |-> [t \in 1..Len(loop.df) |-> Blank],
                        other |-> Written(file.other)]]

\* The bulk insert run while the scan is still to come
InsertWithPandas_before_scan ==
    /\ pc = "snapshot" /\ df = << >>
    /\ LET r == insert_rows_with_pandas(excel_file, insert_data)
       IN  /\ r.ok
           /\ df' = r.df
           /\ row_shift_map' = r.row_shift_map
           /\ inserted_positions' = r.inserted_positions
           /\ temp_file' = r.temp_file
    /\ pc' = "snapshot"
    /\ UNCHANGED <<max_row_original, shiftVars, textVars, excel_file,
                   insert_data, metadata, cross_references, wb, output_file>>

InsertWithPandas ==
    /\ pc = "scanned"
    /\ LET r == insert_rows_with_pandas(excel_file, insert_data)
       IN  /\ r.ok
           /\ df' = r.df
           /\ row_shift_map' = r.row_shift_map
           /\ inserted_positions' = r.inserted_positions
           /\ temp_file' = r.temp_file
    /\ pc' = "inserted"
    /\ UNCHANGED <<max_row_original, shiftVars, textVars, excel_file,
                   insert_data, metadata, cross_references, wb, output_file>>

\* The IndexError leaves insert_rows_optimized before anything is written
InsertWithPandasFails ==
    /\ pc = "scanned"
    /\ ~insert_rows_with_pandas(excel_file, insert_data).ok
    /\ pc' = "failed"
    /\ UNCHANGED <<row_shift_map, max_row_original, shiftVars, textVars, pipeVars>>

\* Hyperlink(target=...) as lines 401, 431 and 822 call it: the ref of an
\* openpyxl Hyperlink is a string that may not be None, and none is passed, so
\* the constructor raises TypeError whenever it is reached
Hyperlink_raises == TRUE

\* The cell a result row is formatted from, blank for a row that is skipped:
\* for an inserted row the metadata of its anchor, for any other row the
\* original row it maps back to
row_source(t, file, d, meta, n) ==
    LET cumulative_shifts == calculate_cumulative_shifts(d)
    IN  IF t \in get_inserted_rows_set(d)
        THEN LET s == get_source_row_for_inserted(t, d, cumulative_shifts)
             IN  IF s \in DOMAIN meta THEN meta[s] ELSE Blank
        ELSE LET s == reverse_map_row(t, cumulative_shifts)
             IN  IF s > 0 /\ s <= n THEN sheet_row(file, s) ELSE Blank

\* copy_row_formatting and copy_row_formatting_from_metadata with the formulas
\* restored from the metadata: the formula of the source is written as it
\* is; a source without one leaves the cell alone
copy_row_formatting(source_cell, target_cell) ==
    IF source_cell.kind = "formula" THEN source_cell ELSE target_cell

\* copying from a source cell with a hyperlink builds a Hyperlink
copy_raises(source_cell) == source_cell.kind = "hyperlink" /\ Hyperlink_raises

\* The body of the loop over the rows of the temporary sheet
formatted_row(t, file, temp, d, meta, n) ==
    copy_row_formatting(row_source(t, file, d, meta, n), temp.target[t])

\* the loop reaches a row whose source holds a hyperlink
formatting_raises(file, temp, d, meta) ==
    \E t \in 1..Len(temp.target) :
        copy_raises(row_source(t, file, d, meta, Len(file.target)))

apply_formatting_to_target_sheet_v2(file, temp, d, meta) ==
    [temp EXCEPT !.target =
        [t \in 1..Len(temp.target) |->
            formatted_row(t, file, temp, d, meta, Len(file.target))]]

ApplyFormatting ==
    /\ pc = "inserted"
    /\ ~formatting_raises(excel_file, temp_file, row_shift_map, metadata)
    /\ temp_file' = apply_formatting_to_target_sheet_v2(excel_file, temp_file,
                        row_shift_map, metadata)
    /\ pc' = "formatted"
    /\ UNCHANGED <<row_shift_map, max_row_original, shiftVars, textVars,
                   excel_file, insert_data, metadata, cross_references, df,
                   inserted_positions, wb, output_file>>

\* The TypeError leaves apply_formatting_to_target_sheet_v2 before
\* wb_temp.save: the temporary file stays as the bulk insert wrote it
ApplyFormattingRaises ==
    /\ pc = "inserted"
    /\ formatting_raises(excel_file, temp_file, row_shift_map, metadata)
    /\ pc' = "failed"
    /\ UNCHANGED <<row_shift_map, max_row_original, shiftVars, textVars, pipeVars>>

\* What a captured reference is rewritten to
rewritten_reference(reference, target_sheet_name, d) ==
    IF reference.type = "formula"
    THEN update_formula_with_shifts(reference.original, target_sheet_name,
             calculate_cumulative_shifts(d))
    ELSE update_hyperlink_with_shifts(reference.original, target_sheet_name,
             calculate_cumulative_shifts(d))

\* a captured hyperlink whose target changes is written through Hyperlink
update_raises(target_sheet_name, refs, d) ==
    \E k \in 1..Len(refs) :
        /\ refs[k].type = "hyperlink" /\ Hyperlink_raises
        /\ rewritten_reference(refs[k], target_sheet_name, d) # refs[k].original

\* The captured formula gets the rewritten text when it differs from the
\* original
RECURSIVE update_cross_sheet_references(_, _, _, _)
update_cross_sheet_references(book, target_sheet_name, refs, d) ==
    IF refs = << >> THEN book
    ELSE LET reference == Head(refs)
             new == rewritten_reference(reference, target_sheet_name, d)
             updated == IF new # reference.original
                        THEN [book EXCEPT !.other = [kind |-> reference.type, text |-> new]]
                        ELSE book
         IN  update_cross_sheet_references(updated, target_sheet_name, Tail(refs), d)

UpdateCrossReferences ==
    /\ pc = "formatted"
    /\ ~update_raises(TargetName, cross_references, row_shift_map)
    /\ wb' = update_cross_sheet_references(temp_file, TargetName,
                 cross_references, row_shift_map)
    /\ pc' = "rewritten"
    /\ UNCHANGED <<row_shift_map, max_row_original, shiftVars, textVars,
                   excel_file, insert_data, metadata, cross_references, df,
                   inserted_positions, temp_file, output_file>>

\* The TypeError leaves insert_rows_optimized before wb.save
UpdateCrossReferencesRaises ==
    /\ pc = "formatted"
    /\ update_raises(TargetName, cross_references, row_shift_map)
    /\ pc' = "failed"
    /\ UNCHANGED <<row_shift_map, max_row_original, shiftVars, textVars, pipeVars>>

\* wb.save(output_file)
Save ==
    /\ pc = "rewritten"
    /\ output_file' = wb
    /\ pc' = "saved"
    /\ UNCHANGED <<row_shift_map, max_row_original, shiftVars, textVars,
                   excel_file, insert_data, metadata, cross_references, df,
                   inserted_positions, temp_file, wb>>

\* os.remove(temp_file)
Cleanup ==
    /\ pc = "saved"
    /\ temp_file' = NoFile
    /\ pc' = "done"
    /\ UNCHANGED <<row_shift_map, max_row_original, shiftVars, textVars,
                   excel_file, insert_data, metadata, cross_references, df,
                   inserted_positions, wb, output_file>>

\* An exception in a stage that runs when the temporary file exists
\* (load_workbook or save raising on the temporary file, wb.save raising on
\* an output path that cannot be written): insert_rows_optimized has no
\* handler, the exception leaves it as things are
StageFails ==
    /\ pc \in {"inserted", "formatted", "rewritten"}
    /\ pc' = "failed"
    /\ UNCHANGED <<row_shift_map, max_row_original, shiftVars, textVars, pipeVars>>

Next ==
    \/ ValidateOk \/ ValidateReject
    \/ ExtractMetadata
    \/ AnalyzeCrossReferences
    \/ InsertWithPandas \/ InsertWithPandasFails
    \/ ApplyFormatting \/ ApplyFormattingRaises
    \/ UpdateCrossReferences \/ UpdateCrossReferencesRaises
    \/ Save
    \/ Cleanup
    \/ StageFails

Spec == Init /\ [][Next]_vars

----------------------------------------------------------------------------
(* Claims about a whole run *)

DistinctAnchors(data) ==
    \A i, j \in 1..Len(data) : i # j => data[i].row_number # data[j].row_number

\* The requests as the table {anchor -> count} the contract speaks of
RequestTable(data) ==
    [a \in {data[i].row_number : i \in 1..Len(data)} |->
        data[CHOOSE i \in 1..Len(data) : data[i].row_number = a].count]

\* Piece i of a cell's text refers to a row of the target sheet: on the target
\* sheet every reference does unless it names another sheet, elsewhere the
\* references qualified with the target sheet's name and the second endpoint
\* of a range that starts with one
RefersToTarget(ps, i, on_target) ==
    /\ ps[i].kind = "ref"
    /\ \/ TargetQualified(ps[i])
       \/ ps[i].qual = "none" /\ on_target
       \/ /\ ps[i].qual = "none" /\ i > 2
          /\ ps[i - 1] = Lit(<<":">>) /\ TargetQualified(ps[i - 2])

\* The text of a cell whose references to the target sheet follow their rows
FollowingRows(cell, on_target, d) ==
    [kind |-> cell.kind,
     text |-> Flatten([i \in 1..Len(cell.pieces) |->
                 IF RefersToTarget(cell.pieces, i, on_target) /\ ~cell.pieces[i].row_abs
                 THEN Render(WithRow(cell.pieces[i],
                          int(cell.pieces[i].digits)
                              + SumBelow(d, int(cell.pieces[i].digits))))
                 ELSE Render(cell.pieces[i])])]

\* C1: after a complete run with distinct anchors every formula or hyperlink
\* that referred to original row r of the target sheet without an
\* absolute-row marker refers to row r + offset(r) in the output: in the
\* cells of the target sheet's original rows, whether the reference is
\* unqualified or sheet-qualified, and in the cells of the other sheets, both
\* endpoints of a range included.
C1_ReferencesFollowRows ==
    (pc = "done" /\ DistinctAnchors(insert_data))
        => LET d == RequestTable(insert_data)
           IN  /\ \A r \in 1..max_row_original :
                      excel_file.target[r].kind # "none"
                          => output_file.target[r + SumBelow(d, r)]
                                 = FollowingRows(excel_file.target[r], TRUE, d)
               /\ output_file.other = FollowingRows(excel_file.other, FALSE, d)

----------------------------------------------------------------------------
(* Further claims about adjust_formula_references *)

\* Every reference of the text is written without $
RelativeOnly(ps) ==
    \A i \in 1..Len(ps) : ps[i].kind = "ref" => ~ps[i].col_abs /\ ~ps[i].row_abs

\* C11: relative-formula delta law: for every formula f made only of relative
\* references and all rows s and d, also d < s with a referenced row that
\* drops to 0 or below, adjusting f from s to d and the result from d back to
\* s gives f again.
C11_AdjustRoundTrip ==
    (pc = "restored" /\ RelativeOnly(pieces)) => result = text

----------------------------------------------------------------------------
(* Further claims about identity resolution *)

\* C12, as stated: with the shift table {3: 2, 5: 1} result row 6 resolves to
\* an inserted row cloned from anchor 3 and result row 8 resolves to original
\* row 5.
C12_Row6InsertedRow8Original ==
    (pc = "resolved" /\ row_shift_map = T35)
        => /\ target_row = 6 => (is_inserted /\ source_row = 3)
           /\ target_row = 8 => (~is_inserted /\ source_row = 5)

\* C12, amended: with the shift table {3: 2, 5: 1} the inserted rows are 4 and
\* 5, cloned from anchor 3, and 8, cloned from anchor 5; result row 6 resolves
\* to original row 4, result row 7 to original row 5 and result row 8 to the
\* inserted row cloned from anchor 5.
C12_Row6OriginalRow8Inserted ==
    (pc = "resolved" /\ row_shift_map = T35)
        => /\ is_inserted = (target_row \in {4, 5, 8})
           /\ target_row \in {4, 5} => source_row = 3
           /\ target_row = 8 => source_row = 5
           /\ target_row = 6 => source_row = 4
           /\ target_row = 7 => source_row = 5

\* Result row 8 of the table {3: 2, 5: 1} has been resolved
C12_Witness ==
    /\ pc = "resolved" /\ row_shift_map = T35
    /\ target_row = 8 /\ is_inserted /\ source_row = 5

----------------------------------------------------------------------------
(* Claims about the requests a run accepts *)

\* C13: when two requests of insert_data share an anchor row the run is
\* rejected before any row is inserted, and the shift table never keeps only
\* one of the two counts while both groups of rows are spliced into the sheet.
C13_DuplicateAnchorsRejected ==
    ~DistinctAnchors(insert_data)
        => /\ pc \in {"start", "rejected"}
           /\ df = << >>
           /\ row_shift_map = << >>

AnchorsExist(data, n) ==
    \A i \in 1..Len(data) : data[i].row_number \in 1..n

\* C14: a request whose anchor row does not exist in the original target
\* sheet is rejected during validation, before the snapshot, scan and
\* bulk-insert stages run; no row is inserted and no file is written.
C14_UnknownAnchorRejectedByValidation ==
    ~AnchorsExist(insert_data, max_row_original)
        => /\ pc \in {"start", "rejected"}
           /\ metadata = << >> /\ cross_references = << >>
           /\ df = << >>
           /\ ~temp_file.exists /\ ~output_file.exists

\* Identity resolution of result row t as the formatting loop does it finds
\* a mapping: for an inserted row an anchor whose metadata was taken, for any
\* other row a row of the original sheet
Mapped(t, d, meta, n) ==
    LET cumulative_shifts == calculate_cumulative_shifts(d)
    IN  IF t \in get_inserted_rows_set(d)
        THEN get_source_row_for_inserted(t, d, cumulative_shifts) \in DOMAIN meta
        ELSE LET s == reverse_map_row(t, cumulative_shifts)
             IN  s \in 1..n /\ s + dict_get(cumulative_shifts, s, 0) = t

\* C15: whenever identity resolution of a post-insertion row finds no mapping
\* the run aborts with an error: a run that goes on past the formatting loop
\* has found a mapping for every row of the result, none was skipped or given
\* a default source row.
C15_UnmappedRowAborts ==
    pc \in {"formatted", "rewritten", "saved", "done"}
        => \A t \in 1..Len(df) : Mapped(t, row_shift_map, metadata, max_row_original)

----------------------------------------------------------------------------
(* Claims about the course of a run *)

\* The stages in the order of insert_rows_optimized: the position after
\* validation, the metadata snapshot, the scan, the bulk insert, the
\* formatting pass, the rewrite of the captured references and the save
StageOrder ==
    <<"start", "validated", "snapshot", "scanned", "inserted", "formatted",
      "rewritten", "saved", "done">>

StageOf(p) == CHOOSE i \in 1..Len(StageOrder) : StageOrder[i] = p

Running(p) == \E i \in 1..Len(StageOrder) : StageOrder[i] = p

\* C16: in every run the stages occur in the fixed order validate, snapshot
\* of the anchor rows' metadata, scan of the cross-references, bulk insert,
\* shift map and row templates, rewrite of the captured references, save; no
\* stage is repeated or entered again, a run that is rejected or has failed
\* does nothing more, and the scan has completed, on the texts of the input
\* workbook, before any row is inserted.
C16_StagesInOrder ==
    [][/\ Running(pc) /\ Running(pc') => StageOf(pc') = StageOf(pc) + 1
       /\ ~Running(pc) => pc' = pc
       /\ cross_references' # cross_references => pc = "snapshot" /\ df = << >>
       /\ df' # df
            => /\ pc = "scanned"
               /\ cross_references = analyze_cross_sheet_references(excel_file, TargetName)
       /\ temp_file' # temp_file => pc \in {"scanned", "inserted", "saved"}
       /\ wb' # wb => pc = "formatted"
       /\ output_file' # output_file => pc = "rewritten"]_vars

\* A run has gone through every stage with a captured reference and rows
\* inserted
C16_Witness ==
    /\ pc = "done" /\ output_file.exists
    /\ cross_references # << >>
    /\ Len(df) > max_row_original

\* C17: if a stage after validation fails the run ends with nothing written
\* to the output target, the input file as it was and no half-processed
\* workbook file left behind; the output target is written only after every
\* earlier stage has succeeded.
C17_FailureLeavesNothing ==
    /\ pc = "failed"
         => /\ ~output_file.exists
            /\ ~temp_file.exists
            /\ excel_file.exists
    /\ output_file.exists => pc \in {"saved", "done"}

----------------------------------------------------------------------------
(* Claims about the layout of the bulk insert *)

\* A workbook whose target sheet has n rows without a formula or hyperlink
PlainWorkbook(n) ==
    [exists |-> TRUE, target |-> [r \in 1..n |-> EmptyCell], other |-> EmptyCell]

\* The requests that ask for d[a] rows after each anchor a of the table d,
\* listed by ascending anchor
RequestsOf(d) ==
    LET keys == sorted_keys(d)
    IN  [i \in 1..Len(keys) |-> [row_number |-> keys[i], count |-> d[keys[i]]]]

\* C18: for a sheet of N rows and requests with distinct anchors in 1..N the
\* layout made by insert_rows_with_pandas agrees with the shift-map view:
\* the shift table it returns is the table of the requests; original row r
\* sits at frame position r + offset(r), offset(r) being what the lookup in
\* the table of calculate_cumulative_shifts gave for r; the clones of anchor
\* a carry the anchor's values and sit at positions a + offset(a) + 1 ..
\* a + offset(a) + count(a) in payload order; inserted_positions are exactly
\* those positions with source_row = a, in ascending row order, and as a set
\* they equal get_inserted_rows_set(row_shift_map).
C18_LayoutAgreesWithShiftMap ==
    pc = "looked"
        => LET d == row_shift_map
               n == max_row_original
               data == RequestsOf(d)
               r == insert_rows_with_pandas(PlainWorkbook(n), data)
               at(a) == a + OffsetUsed(d, a)
               rows == 1..Len(r.df)
           IN  /\ r.ok
               /\ r.row_shift_map = d
               /\ row_num <= n
                      => /\ row_num + shift \in rows
                         /\ r.df[row_num + shift] = OriginalRow(row_num)
               /\ \A i \in 1..Len(data) :
                      \A j \in 1..data[i].count :
                          /\ at(data[i].row_number) + j \in rows
                          /\ r.df[at(data[i].row_number) + j]
                                 = [src |-> data[i].row_number, req |-> i, ord |-> j]
               /\ Len(r.inserted_positions) = Total(d)
               /\ \A k \in 1..Len(r.inserted_positions) :
                      LET p == r.inserted_positions[k]
                      IN  /\ p.source_row \in DOMAIN d
                          /\ p.row_number \in (at(p.source_row) + 1)
                                                  ..(at(p.source_row) + d[p.source_row])
                          /\ k > 1 => r.inserted_positions[k - 1].row_number < p.row_number
               /\ {r.inserted_positions[k].row_number : k \in 1..Len(r.inserted_positions)}
                      = get_inserted_rows_set(d)

----------------------------------------------------------------------------
(* Claims about what the scanner and the rewriters match *)

\* C19: the scanner and both rewriters match only references qualified with
\* exactly the target sheet's name: a reference qualified with another sheet
\* whose name ends with the target's name (MySheet1!B4 for the target Sheet1)
\* is not captured by analyze_cross_sheet_references and not changed by the
\* rewriters, and all text outside the matched references comes back as it
\* was.
C19_OnlyExactSheetName ==
    pc \in {"formula", "hyperlink"}
        => /\ result = Flatten([i \in 1..Len(pieces) |->
                                   IF TargetQualified(pieces[i])
                                   THEN Rewritten(pc, Render(pieces[i]), row_shift_map)
                                   ELSE Render(pieces[i])])
           /\ (\A i \in 1..Len(pieces) : ~TargetQualified(pieces[i]))
                  => ~HasReference(text, TargetName)
====
